---- MODULE Spec2Model ----
(***************************************************************************)
(* NotifyMe: a leveled logger.  The repository holds five variants of the *)
(* same logger; the model carries all of them, selected by `variant`:     *)
(*   "logger" src/logger.go              global logger, Log dispatcher    *)
(*   "plain"  src/unnamed/part_000       global logger, no mutex          *)
(*   "lwl"    src/unnamed/part_001:1-198 LogWithLevel holding the mutex   *)
(*   "inst"   src/unnamed/part_001:200-  instance API, logMessage locks   *)
(*   "glob"   src/unnamed/part_002       global logger, logMessage locks  *)
(* Callers are goroutines.  A call is a sequence of steps: lock, read of  *)
(* the threshold, write to the sink, store of the threshold, unlock,      *)
(* return.  Texts are sequences of tokens.                                *)
(***************************************************************************)
EXTENDS Integers, Sequences, FiniteSets, TLC

VARIABLES variant, gen, oldheld, fatal, hist, view, retIdx, mu, out, sink,
          st, wire, ncalls

vars == <<variant, gen, oldheld, fatal, hist, view, retIdx, mu, out, sink, st,
          wire, ncalls>>

\* ---------------------------------------------------------------- bounds
NumCallers == 2
MaxCalls == 2
MaxLevel == 4

\* ------------------------------------------------------ program constants
LevelInfo == 0
LevelWarn == 1
LevelError == 2
LevelCritical == 3

Variants == {"logger", "plain", "lwl", "inst", "glob"}
Callers == 1..NumCallers
LevelVals == 0..MaxLevel
\* NewLogger(level): no validation; one threshold below the range, one inside.
InitLevels == {0 - 1, LevelWarn}
Severities == {LevelInfo, LevelWarn, LevelError, LevelCritical}
Outputs == {"stdout", "file"}
\* The (level, output) arguments of a later InitializeGlobalLogger call.
InitArgs == InitLevels \X Outputs
Tags == {"Info", "Warn", "Error", "Critical", "Bogus"}
Unset == "<unset>"
EnvVals == {Unset, "INFO", "WARN", "ERROR", "CRITICAL", "", "warn"}
\* A message and its operands (optionalParams, args, context).
Texts == {[msg |-> <<"disk full", "%v">>, args |-> <<"sda">>],
          [msg |-> <<"disk full", "%v">>, args |-> <<>>]}

\* ------------------------------------------------------------- variants
HasMutex(v) == v # "plain"
\* The package keeps a process-wide globalLogger.
HasGlobalLogger(v) == v # "inst"
\* InitializeGlobalLogger runs its body under once.Do.
HasOnce(v) == v \in {"logger", "lwl"}
HasLog(v) == v = "logger"
HasLogWithLevel(v) == v \in {"plain", "lwl"}
HasSeverityMethods(v) == v # "logger"
HasJSON(v) == v \in {"logger", "lwl"}
HasFormatArgs(v) == v = "inst"
CriticalReturnsError(v) == v \in {"inst", "glob"}

\* ------------------------------------------------------- pure functions
SeverityLabel(s) ==
  CASE s = LevelInfo -> "INFO"
    [] s = LevelWarn -> "WARN"
    [] s = LevelError -> "ERROR"
    [] OTHER -> "CRITICAL"

\* Mutant of Passes: the comparison made strict.
PassesStrict(threshold, sev) == threshold < sev

\* The filter of every variant: `if l.level <= LevelX`.
Passes(threshold, sev) == threshold <= sev

DigitChar(d) == <<"0", "1", "2", "3", "4", "5", "6", "7", "8", "9">>[d + 1]

RECURSIVE NatDigits(_)
NatDigits(n) == IF n < 10 THEN <<DigitChar(n)>>
                ELSE Append(NatDigits(n \div 10), DigitChar(n % 10))

\* Mutant of IntDigits: the sign is dropped.
IntDigitsNoSign(n) == IF n < 0 THEN NatDigits(-n) ELSE NatDigits(n)

\* fmt's %d and encoding/json's integer: an optional sign and decimal digits.
IntDigits(n) == IF n < 0 THEN <<"-">> \o NatDigits(-n) ELSE NatDigits(n)

CharDigit(ch) == CHOOSE d \in 0..9 : DigitChar(d) = ch
IsDigitChar(ch) == \E d \in 0..9 : DigitChar(d) = ch

RECURSIVE ParseNat(_, _)
ParseNat(chars, acc) ==
  IF chars = <<>> THEN acc
  ELSE ParseNat(Tail(chars), acc * 10 + CharDigit(Head(chars)))

\* fmt.Sprintf over a token text: each verb takes the next operand, a verb
\* without operand prints %!v(MISSING), operands left over print %!(EXTRA).
RECURSIVE Sprintf(_, _)
Sprintf(format, operands) ==
  IF format = <<>>
    THEN IF operands = <<>> THEN <<>> ELSE <<"%!(EXTRA)">>
    ELSE IF Head(format) = "%v"
      THEN IF operands = <<>>
        THEN <<"%!v(MISSING)">> \o Sprintf(Tail(format), operands)
        ELSE <<Head(operands)>> \o Sprintf(Tail(format), Tail(operands))
      ELSE <<Head(format)>> \o Sprintf(Tail(format), operands)

\* Log: fullMessage := message; fullMessage += " %v" of each parameter.
FullMessage(message, params) == message \o params

\* Notify and logMessage: format only when operands are given.
Formatted(message, operands) ==
  IF Len(operands) > 0 THEN Sprintf(message, operands) ELSE message

UnknownLevelText(n) == <<"Unknown log level:">> \o IntDigits(n)

UnknownTypeText(v, tag) ==
  IF v = "inst" THEN <<"Unknown message type:">>
  ELSE <<"Unknown message type:", tag>>

\* Mutant of TagSeverity: "Critical" dispatched to the Error emit.
TagSeverityNoCritical(tag) ==
  CASE tag = "Info" -> LevelInfo
    [] tag = "Warn" -> LevelWarn
    [] OTHER -> LevelError

TagSeverity(tag) ==
  CASE tag = "Info" -> LevelInfo
    [] tag = "Warn" -> LevelWarn
    [] tag = "Error" -> LevelError
    [] tag = "Critical" -> LevelCritical
    [] OTHER -> LevelError

KnownTag(tag) == tag \in {"Info", "Warn", "Error", "Critical"}

\* Mutant of EnvLevel: LOG_LEVEL matched without regard to case.
EnvLevelAnyCase(e) ==
  CASE e \in {"INFO", "info"} -> LevelInfo
    [] e \in {"WARN", "warn"} -> LevelWarn
    [] e \in {"ERROR", "error"} -> LevelError
    [] e \in {"CRITICAL", "critical"} -> LevelCritical
    [] OTHER -> LevelError

EnvLevel(e) ==
  CASE e = "INFO" -> LevelInfo
    [] e = "WARN" -> LevelWarn
    [] e = "ERROR" -> LevelError
    [] e = "CRITICAL" -> LevelCritical
    [] OTHER -> LevelError

\* json.Marshal of struct{Level int `json:"level"`}.
EncodeJSON(level) == <<"{", "level", ":">> \o IntDigits(level) \o <<"}">>

BadJSON == <<"{", "level", ":", "x", "}">>

JSONNumber(data) == SubSeq(data, 4, Len(data) - 1)

ValidJSON(data) ==
  /\ Len(data) >= 5
  /\ SubSeq(data, 1, 3) = <<"{", "level", ":">>
  /\ data[Len(data)] = "}"
  /\ LET num == JSONNumber(data)
         mag == IF Head(num) = "-" THEN Tail(num) ELSE num
     IN mag # <<>> /\ \A i \in 1..Len(mag) : IsDigitChar(mag[i])

\* json.Unmarshal into struct{Level int `json:"level"`}.
DecodeJSON(data) ==
  LET num == JSONNumber(data)
  IN IF Head(num) = "-" THEN 0 - ParseNat(Tail(num), 0) ELSE ParseNat(num, 0)

\* ------------------------------------------------------------- the state
\* hist: every value stored into Logger.level, oldest first; the threshold in
\*   force is the last one.  view[c]: the oldest store caller c may still
\*   observe with a read that no lock orders (Go memory model).
\* retIdx: the newest store of a SetLevel call that has returned.
\* mu: holder of Logger.mu, 0 when free.  out: where the four writers point.
\* sink: the fragments written, in order; one Printf/Println is a head and a
\*   tail fragment (the four log.Logger values share one io.Writer, so only
\*   Logger.mu orders their writes).
\* st[c]: the call caller c is in, or its last call once pc = "idle".
\* wire: the last MarshalJSON output.  ncalls: calls started so far.
NoCall ==
  [pc |-> "idle", op |-> "none", id |-> 0, sev |-> 0, n |-> 0, tag |-> "",
   env |-> "", msg |-> <<>>, args |-> <<>>, txt |-> <<>>, ctx |-> "",
   lock |-> "none", bypass |-> FALSE, sidx |-> 0, widx |-> 0, base |-> 0,
   dst |-> "", ret |-> "pending", err |-> <<>>, data |-> <<>>,
   output |-> "", ugen |-> 0]

CurLevel == hist[Len(hist)]

Max(a, b) == IF a >= b THEN a ELSE b

Init ==
  /\ variant \in Variants
  /\ gen = 1
  /\ oldheld = {}
  /\ fatal = FALSE
  /\ hist \in {<<l>> : l \in InitLevels}
  /\ view = [c \in Callers |-> 1]
  /\ retIdx = 1
  /\ mu = 0
  /\ out \in Outputs
  /\ sink = <<>>
  /\ st = [c \in Callers |-> NoCall]
  /\ wire = <<>>
  /\ ncalls = 0

\* Callers are interchangeable: the lower-numbered one makes its first call
\* first.
CanCall(c) ==
  /\ st[c].pc = "idle"
  /\ ncalls < MaxCalls
  /\ \A d \in Callers : d < c => st[d].op # "none"

\* A call of caller c begins: its frame is `frame`.
Begin(c, frame) ==
  /\ CanCall(c)
  /\ ncalls' = ncalls + 1
  /\ st' = [st EXCEPT ![c] = [frame EXCEPT !.id = ncalls + 1, !.base = retIdx]]
  /\ UNCHANGED <<variant, gen, oldheld, fatal, hist, view, retIdx, mu, out, sink, wire>>

\* Where the emit path of an operation takes Logger.mu: "outer" around the
\* threshold test, "inner" in logMessage after it, "none" nowhere.
DispatcherLock(v) == IF v \in {"logger", "lwl"} THEN "outer" ELSE "none"

\* Mutant of MethodLock: logMessage without its mu.Lock().
MethodLockNone(v) == "none"

MethodLock(v) == IF v \in {"inst", "glob"} THEN "inner" ELSE "none"

NotifyLock(v) == IF v = "logger" THEN "outer" ELSE MethodLock(v)

FirstPc(lock) == IF lock = "outer" THEN "lock" ELSE "check"

MethodContext(v, s, context) ==
  CASE v = "inst" -> context
    [] v = "glob" -> SeverityLabel(s)
    [] OTHER -> ""

\* ---------------------------------------------------------------- calls
\* Log(level, message, optionalParams...)
Log(c, level, message, params) ==
  /\ HasLog(variant)
  /\ Begin(c, [NoCall EXCEPT
       !.pc = "lock", !.op = "Log", !.lock = "outer", !.n = level,
       !.msg = message, !.args = params,
       !.bypass = level \notin Severities,
       !.sev = IF level \in Severities THEN level ELSE LevelError,
       !.txt = IF level \in Severities THEN FullMessage(message, params)
               ELSE UnknownLevelText(level)])

\* LogWithLevel(level, message)
LogWithLevel(c, level, message) ==
  /\ HasLogWithLevel(variant)
  /\ Begin(c, [NoCall EXCEPT
       !.pc = FirstPc(DispatcherLock(variant)), !.op = "LogWithLevel",
       !.lock = DispatcherLock(variant), !.n = level, !.msg = message,
       !.sev = IF level \in Severities THEN level ELSE LevelError,
       !.txt = IF level \in Severities THEN message
               ELSE UnknownLevelText(level)])

\* The severity methods Info, Warn, Error, Critical.
SeverityMethod(c, name, s, message, context, operands) ==
  /\ HasSeverityMethods(variant)
  /\ HasFormatArgs(variant) \/ operands = <<>>
  /\ Begin(c, [NoCall EXCEPT
       !.pc = "check", !.op = name, !.lock = MethodLock(variant), !.n = s,
       !.sev = s, !.msg = message, !.args = operands,
       !.txt = Formatted(message, operands),
       !.ctx = MethodContext(variant, s, context)])

Info(c, message, operands) ==
  SeverityMethod(c, "Info", LevelInfo, message, "main", operands)

Warn(c, message, operands) ==
  SeverityMethod(c, "Warn", LevelWarn, message, "main", operands)

Error(c, message, operands) ==
  SeverityMethod(c, "Error", LevelError, message, "main", operands)

Critical(c, message, operands) ==
  SeverityMethod(c, "Critical", LevelCritical, message, "main", operands)

\* SetLevel(level)
SetLevel(c, level) ==
  Begin(c, [NoCall EXCEPT
    !.pc = IF HasMutex(variant) THEN "lock" ELSE "store",
    !.op = "SetLevel", !.n = level])

\* Notify(messageType, message, context...)
Notify(c, tag, message, context) ==
  Begin(c, [NoCall EXCEPT
    !.pc = FirstPc(NotifyLock(variant)), !.op = "Notify",
    !.lock = NotifyLock(variant), !.tag = tag, !.msg = message,
    !.args = context, !.sev = TagSeverity(tag), !.n = TagSeverity(tag),
    !.txt = IF KnownTag(tag) THEN Formatted(message, context)
            ELSE UnknownTypeText(variant, tag),
    !.ctx = MethodContext(variant, TagSeverity(tag), "Notify")])

\* InitFromEnv(): LOG_LEVEL is e.
InitFromEnv(c, e) ==
  Begin(c, [NoCall EXCEPT
    !.pc = IF e = Unset THEN "ret"
           ELSE IF HasMutex(variant) THEN "lock" ELSE "store",
    !.op = "InitFromEnv", !.env = e, !.n = EnvLevel(e)])

\* InitializeGlobalLogger(level, output...) after the global logger exists:
\* once.Do skips its body; without the guard the body runs again.
InitializeGlobalLogger(c, level, output) ==
  /\ HasGlobalLogger(variant)
  /\ Begin(c, [NoCall EXCEPT
       !.pc = IF HasOnce(variant) THEN "ret" ELSE "init",
       !.op = "InitializeGlobalLogger", !.n = level, !.output = output])

MarshalJSON(c) ==
  /\ HasJSON(variant)
  /\ Begin(c, [NoCall EXCEPT !.pc = "lock", !.op = "MarshalJSON"])

UnmarshalJSON(c, d) ==
  /\ HasJSON(variant)
  /\ Begin(c, IF ValidJSON(d)
       THEN [NoCall EXCEPT !.pc = "lock", !.op = "UnmarshalJSON",
                           !.data = d, !.n = DecodeJSON(d)]
       ELSE [NoCall EXCEPT !.pc = "ret", !.op = "UnmarshalJSON",
                           !.data = d, !.ret = "error",
                           !.err = <<"invalid JSON">>])

\* ---------------------------------------------------------------- steps
EmitOps == {"Log", "LogWithLevel", "Info", "Warn", "Error", "Critical", "Notify"}
StoreOps == {"SetLevel", "InitFromEnv"}

\* What a call does once it holds the mutex.
AfterLock(f) ==
  CASE f.op \in StoreOps -> "store"
    [] f.op = "MarshalJSON" -> "load"
    [] f.op = "UnmarshalJSON" -> "reset"
    [] f.lock = "outer" -> "check"
    [] OTHER -> "write"


\* Mutant of AfterCheck: the severity method locks mu although its caller
\* LogWithLevel already holds it.
AfterCheckRelock(f) == IF f.lock = "none" THEN "write" ELSE "lock"

\* What follows a passed threshold test: logMessage takes the mutex where the
\* method locks, the line is written at once where it does not.
AfterCheck(f) == IF f.lock = "inner" THEN "lock" ELSE "write"

\* The stores a read of Logger.level by caller c may observe.
Observable(c) == view[c]..Len(hist)

\* mu.Lock(): blocks while another caller holds the mutex; the acquisition
\* orders every store made under the mutex before it.  The deferred
\* mu.Unlock() is bound to the mutex of logger `ugen`.
Lock(c) ==
  /\ st[c].pc = "lock"
  /\ mu = 0
  /\ mu' = c
  /\ view' = [view EXCEPT ![c] = Len(hist)]
  /\ st' = [st EXCEPT ![c].pc = AfterLock(st[c]), ![c].ugen = gen]
  /\ UNCHANGED <<variant, gen, oldheld, fatal, hist, retIdx, out, sink, wire, ncalls>>

\* The threshold test `if l.level <= LevelX` of a severity.
CheckLevel(c) ==
  /\ st[c].pc = "check"
  /\ ~st[c].bypass
  /\ \E i \in Observable(c) :
       /\ view' = [view EXCEPT ![c] = i]
       /\ st' = [st EXCEPT
            ![c].sidx = i,
            ![c].pc = IF Passes(hist[i], st[c].sev)
                      THEN AfterCheck(st[c])
                      ELSE "ret"]
  /\ UNCHANGED <<variant, gen, oldheld, fatal, hist, retIdx, mu, out, sink, wire, ncalls>>

\* Mutant of LogDefault: the default case of Log's switch also clamps the
\* threshold to LevelError.
LogDefaultStores(c) ==
  /\ st[c].pc = "check"
  /\ st[c].bypass
  /\ hist' = Append(hist, LevelError)
  /\ view' = [view EXCEPT ![c] = Len(hist) + 1]
  /\ st' = [st EXCEPT ![c].pc = "write"]
  /\ UNCHANGED <<variant, gen, oldheld, fatal, retIdx, mu, out, sink, wire, ncalls>>

\* The default case of Log's switch: no threshold test.
LogDefault(c) ==
  /\ st[c].pc = "check"
  /\ st[c].bypass
  /\ st' = [st EXCEPT ![c].pc = "write"]
  /\ UNCHANGED <<variant, gen, oldheld, fatal, hist, view, retIdx, mu, out, sink, wire, ncalls>>

Fragment(c, part, dst) ==
  [id |-> st[c].id, part |-> part, lab |-> SeverityLabel(st[c].sev),
   txt |-> st[c].txt, ctx |-> st[c].ctx, dst |-> dst]

\* logger.Printf / logger.Println: the line reaches the writer's target.
WriteHead(c) ==
  /\ st[c].pc = "write"
  /\ sink' = Append(sink, Fragment(c, "head", out))
  /\ st' = [st EXCEPT ![c].pc = "write2", ![c].dst = out]
  /\ UNCHANGED <<variant, gen, oldheld, fatal, hist, view, retIdx, mu, out, wire, ncalls>>

WriteTail(c) ==
  /\ st[c].pc = "write2"
  /\ sink' = Append(sink, Fragment(c, "tail", st[c].dst))
  /\ st' = [st EXCEPT ![c].pc = "ret"]
  /\ UNCHANGED <<variant, gen, oldheld, fatal, hist, view, retIdx, mu, out, wire, ncalls>>

\* globalLogger.level = level / l.level = level
StoreLevel(c) ==
  /\ st[c].pc = "store"
  /\ hist' = Append(hist, st[c].n)
  /\ view' = [view EXCEPT ![c] = Len(hist) + 1]
  /\ st' = [st EXCEPT ![c].widx = Len(hist) + 1, ![c].pc = "ret"]
  /\ UNCHANGED <<variant, gen, oldheld, fatal, retIdx, mu, out, sink, wire, ncalls>>

\* MarshalJSON: json.Marshal of the level, read under the mutex.
LoadLevel(c) ==
  /\ st[c].pc = "load"
  /\ \E i \in Observable(c) :
       /\ view' = [view EXCEPT ![c] = i]
       /\ wire' = <<[data |-> EncodeJSON(hist[i]), level |-> hist[i]]>>
       /\ st' = [st EXCEPT ![c].sidx = i, ![c].data = EncodeJSON(hist[i]),
                           ![c].pc = "ret"]
  /\ UNCHANGED <<variant, gen, oldheld, fatal, hist, retIdx, mu, out, sink, ncalls>>

\* UnmarshalJSON: the level is stored, the four writers are rebuilt on
\* os.Stdout.
ResetFromJSON(c) ==
  /\ st[c].pc = "reset"
  /\ hist' = Append(hist, st[c].n)
  /\ view' = [view EXCEPT ![c] = Len(hist) + 1]
  /\ out' = "stdout"
  /\ st' = [st EXCEPT ![c].widx = Len(hist) + 1, ![c].pc = "ret"]
  /\ UNCHANGED <<variant, gen, oldheld, fatal, retIdx, mu, sink, wire, ncalls>>

\* Caller d has taken the mutex of the current logger and not yet run the
\* statement after `defer globalLogger.mu.Unlock()`.
JustLocked(d) == st[d].ugen = gen /\ st[d].pc = AfterLock(st[d])

\* globalLogger = newLoggerInstance(level, output...): a new Logger with its
\* own level, writers and (unlocked) mutex replaces the global one.  A caller
\* between globalLogger.mu.Lock() and defer globalLogger.mu.Unlock() binds
\* its Unlock to the old or to the new logger's mutex.
NewLoggerInstance(c) ==
  /\ st[c].pc = "init"
  /\ gen' = gen + 1
  /\ hist' = Append(hist, st[c].n)
  /\ view' = [view EXCEPT ![c] = Len(hist) + 1]
  /\ out' = st[c].output
  /\ mu' = 0
  /\ oldheld' = IF mu # 0 THEN oldheld \cup {gen} ELSE oldheld
  /\ \E rebind \in BOOLEAN :
       st' = [d \in Callers |->
               IF d = c
               THEN [st[c] EXCEPT !.widx = Len(hist) + 1, !.pc = "ret"]
               ELSE IF rebind /\ JustLocked(d)
               THEN [st[d] EXCEPT !.ugen = gen + 1]
               ELSE st[d]]
  /\ UNCHANGED <<variant, fatal, retIdx, sink, wire, ncalls>>

\* Mutex.Unlock() on the mutex of logger g when it is not locked: the
\* runtime's "fatal error: sync: unlock of unlocked mutex".
UnlockFatal(g) ==
  \/ g = gen /\ mu = 0
  \/ g # 0 /\ g < gen /\ g \notin oldheld

\* Mutant of ReturnKind: Critical builds its error inside the threshold test.
ReturnKindWhenWritten(v, f) ==
  CASE f.ret # "pending" -> f.ret
    [] f.op = "Critical" /\ CriticalReturnsError(v)
         /\ Passes(hist[f.sidx], f.sev) -> "error"
    [] f.op = "MarshalJSON" -> "data"
    [] f.op = "UnmarshalJSON" -> "nil"
    [] OTHER -> "void"

\* What the call hands back: Critical's fmt.Errorf(message, args...) where
\* it is declared to return error, the bytes of MarshalJSON, the nil or
\* error of UnmarshalJSON, nothing for the rest.
ReturnKind(v, f) ==
  CASE f.ret # "pending" -> f.ret
    [] f.op = "Critical" /\ CriticalReturnsError(v) -> "error"
    [] f.op = "MarshalJSON" -> "data"
    [] f.op = "UnmarshalJSON" -> "nil"
    [] OTHER -> "void"

ReturnError(v, f) ==
  IF f.op = "Critical" /\ CriticalReturnsError(v)
  THEN Sprintf(f.msg, f.args) ELSE f.err

\* The call returns; its deferred mu.Unlock() runs on the mutex it was bound
\* to, whoever holds it.  A fatal error ends the process: every goroutine is
\* gone.
Return(c) ==
  /\ st[c].pc = "ret"
  /\ fatal' = UnlockFatal(st[c].ugen)
  /\ st' = IF UnlockFatal(st[c].ugen)
           THEN [d \in Callers |-> [st[d] EXCEPT !.pc = "dead"]]
           ELSE [st EXCEPT ![c].pc = "idle",
                           ![c].ret = ReturnKind(variant, st[c]),
                           ![c].err = ReturnError(variant, st[c])]
  /\ mu' = IF st[c].ugen = gen THEN 0 ELSE mu
  /\ oldheld' = oldheld \ {st[c].ugen}
  /\ retIdx' = IF st[c].op \in StoreOps THEN Max(retIdx, st[c].widx)
               ELSE retIdx
  /\ UNCHANGED <<variant, gen, hist, view, out, sink, wire, ncalls>>

\* The bytes handed to UnmarshalJSON: malformed ones, a record written by a
\* logger at LevelCritical, and what MarshalJSON returned.
JSONInputs ==
  {BadJSON, EncodeJSON(LevelCritical)} \cup {wire[i].data : i \in 1..Len(wire)}

Next ==
  \E c \in Callers :
    \/ \E n \in LevelVals, t \in Texts : Log(c, n, t.msg, t.args)
    \/ \E n \in LevelVals, t \in Texts : LogWithLevel(c, n, t.msg)
    \/ \E t \in Texts : Info(c, t.msg, t.args)
    \/ \E t \in Texts : Warn(c, t.msg, t.args)
    \/ \E t \in Texts : Error(c, t.msg, t.args)
    \/ \E t \in Texts : Critical(c, t.msg, t.args)
    \/ \E n \in LevelVals : SetLevel(c, n)
    \/ \E g \in Tags, t \in Texts : Notify(c, g, t.msg, t.args)
    \/ \E e \in EnvVals : InitFromEnv(c, e)
    \/ MarshalJSON(c)
    \/ \E d \in JSONInputs : UnmarshalJSON(c, d)
    \/ Lock(c)
    \/ CheckLevel(c)
    \/ LogDefault(c)
    \/ WriteHead(c)
    \/ WriteTail(c)
    \/ StoreLevel(c)
    \/ LoadLevel(c)
    \/ ResetFromJSON(c)
    \/ Return(c)
    \/ \E a \in InitArgs : InitializeGlobalLogger(c, a[1], a[2])
    \/ NewLoggerInstance(c)

Spec == Init /\ [][Next]_vars

\* A call on the Logger begins: every operation but InitializeGlobalLogger.
Call(c) ==
  \/ \E n \in LevelVals, t \in Texts : Log(c, n, t.msg, t.args)
  \/ \E n \in LevelVals, t \in Texts : LogWithLevel(c, n, t.msg)
  \/ \E t \in Texts : Info(c, t.msg, t.args)
  \/ \E t \in Texts : Warn(c, t.msg, t.args)
  \/ \E t \in Texts : Error(c, t.msg, t.args)
  \/ \E t \in Texts : Critical(c, t.msg, t.args)
  \/ \E n \in LevelVals : SetLevel(c, n)
  \/ \E g \in Tags, t \in Texts : Notify(c, g, t.msg, t.args)
  \/ \E e \in EnvVals : InitFromEnv(c, e)
  \/ MarshalJSON(c)
  \/ \E d \in JSONInputs : UnmarshalJSON(c, d)

\* The goroutine of caller c runs the next statement of its call.
Step(c) ==
  \/ Lock(c)
  \/ CheckLevel(c)
  \/ LogDefault(c)
  \/ WriteHead(c)
  \/ WriteTail(c)
  \/ StoreLevel(c)
  \/ LoadLevel(c)
  \/ ResetFromJSON(c)
  \/ Return(c)

LiveNext == \E c \in Callers : Call(c) \/ Step(c)

\* A Logger built by NewLogger(level) or InitializeGlobalLogger(level): no
\* output file, the writers are on os.Stdout.
LiveInit == Init /\ out = "stdout"

\* Concurrent calls on one Logger under a fair scheduler: a goroutine that
\* can run its next statement eventually does.
LiveSpec ==
  LiveInit /\ [][LiveNext]_vars /\ \A c \in Callers : WF_vars(Step(c))

\* ------------------------------------------------------------ properties
\* Caller c's last call has returned.
Done(c) == st[c].pc = "idle" /\ st[c].op # "none"

\* The complete lines (tails) in the sink written by the call `id`.
Lines(id) == {i \in 1..Len(sink) : sink[i].id = id /\ sink[i].part = "tail"}

LinesOf(c) == Cardinality(Lines(st[c].id))

\* The threshold the call's test compared against.
Seen(c) == hist[st[c].sidx]

Tested(c) == st[c].sidx > 0

SeverityEmit(c) ==
  /\ st[c].op \in {"Log", "Info", "Warn", "Error", "Critical"}
  /\ st[c].n \in Severities

\* C1: an emit at severity S against threshold T writes exactly one line,
\* labelled S, when S >= T and nothing when S < T.  T is the threshold the
\* call's test read; under Log's mutex, and for a caller that made every
\* earlier call itself, that is the threshold in force.
C1_EmitIffAtLeastThreshold ==
  \A c \in Callers :
    /\ (Done(c) /\ SeverityEmit(c)) =>
         /\ Tested(c)
         /\ LinesOf(c) = (IF st[c].sev >= Seen(c) THEN 1 ELSE 0)
         /\ \A i \in Lines(st[c].id) :
              sink[i].lab = SeverityLabel(st[c].n)
    /\ (st[c].op = "Log" /\ Tested(c) /\ mu = c) => Seen(c) = CurLevel
    /\ (SeverityEmit(c) /\ Tested(c)
          /\ \A d \in Callers \ {c} : st[d].op = "none") => Seen(c) = CurLevel

C1_Witness ==
  \E c, d \in Callers :
    /\ Done(c) /\ Done(d) /\ SeverityEmit(c) /\ SeverityEmit(d)
    /\ LinesOf(c) = 1 /\ st[c].sev >= Seen(c)
    /\ LinesOf(d) = 0 /\ st[d].sev < Seen(d)

LockedVariants == {"logger", "inst"}

Whole(i) ==
  IF sink[i].part = "head"
  THEN IF i < Len(sink)
       THEN sink[i + 1] = [sink[i] EXCEPT !.part = "tail"]
       ELSE \E c \in Callers : st[c].pc = "write2" /\ st[c].id = sink[i].id
  ELSE i > 1 /\ sink[i - 1] = [sink[i] EXCEPT !.part = "head"]

C3_SetLevelObserved ==
  \A c \in Callers :
    (st[c].op \in EmitOps /\ Tested(c)) => st[c].sidx >= st[c].base

AccessPcs == {"check", "write", "write2", "store", "load", "reset"}

\* C4: a caller about to read or write the threshold, or writing to the
\* sink, holds the mutex.
C4_AccessUnderMutex ==
  \A c \in Callers : st[c].pc \in AccessPcs => mu = c

\* C5 as claimed: every Critical emit returns a non-nil error carrying the
\* formatted message, written or suppressed.
C5_CriticalAlwaysReturnsError ==
  \A c \in Callers :
    (Done(c) /\ (st[c].op = "Critical"
                   \/ (st[c].op = "Log" /\ st[c].n = LevelCritical))) =>
      /\ st[c].ret = "error"
      /\ st[c].err = Sprintf(st[c].msg, st[c].args)

\* C5 amended: where Critical is declared to return error (instance API and
\* part_002) every Critical call returns the non-nil error fmt.Errorf makes
\* of its message and operands, whether or not the line was written; the
\* Critical of the other variants and Log(LevelCritical) return nothing.
C5_CriticalErrorWhereDeclared ==
  \A c \in Callers :
    /\ (Done(c) /\ st[c].op = "Critical") =>
         IF variant \in {"inst", "glob"}
         THEN /\ st[c].ret = "error"
              /\ st[c].err # <<>>
              /\ st[c].err = Sprintf(st[c].msg, st[c].args)
         ELSE st[c].ret = "void"
    /\ (Done(c) /\ st[c].op = "Log") => st[c].ret = "void"

C5_Witness ==
  \E c \in Callers :
    /\ variant = "inst" /\ Done(c) /\ st[c].op = "Critical"
    /\ Seen(c) > LevelCritical /\ LinesOf(c) = 0
    /\ st[c].ret = "error"

NotifyCritical(c) ==
  /\ Done(c) /\ st[c].op = "Notify" /\ st[c].tag = "Critical"
  /\ Tested(c) /\ Seen(c) <= LevelCritical

OneLine(c, label, text) ==
  /\ LinesOf(c) = 1
  /\ \A i \in Lines(st[c].id) : sink[i].lab = label /\ sink[i].txt = text

\* C6 as claimed: Notify("Critical", m) writes one CRITICAL line carrying m
\* and hands its caller an error whose message is m.
C6_NotifyCriticalReturnsError ==
  \A c \in Callers :
    NotifyCritical(c) =>
      /\ OneLine(c, "CRITICAL", Formatted(st[c].msg, st[c].args))
      /\ st[c].ret = "error"
      /\ st[c].err = st[c].msg

\* C6 amended: Notify("Critical", m) at a threshold <= Critical writes
\* exactly one line labelled CRITICAL carrying m (formatted with the context
\* operands when there are any) and returns nothing to its caller.
C6_NotifyCriticalWritesOnly ==
  \A c \in Callers :
    NotifyCritical(c) =>
      /\ OneLine(c, "CRITICAL", Formatted(st[c].msg, st[c].args))
      /\ st[c].args = <<>> =>
           \A i \in Lines(st[c].id) : sink[i].txt = st[c].msg
      /\ st[c].ret = "void"
      /\ st[c].err = <<>>

C6_Witness ==
  \E c \in Callers :
    NotifyCritical(c) /\ st[c].args = <<>> /\ LinesOf(c) = 1

Names(text, tag) == \E i \in 1..Len(text) : text[i] = tag

SameNamedSeverity(tag) ==
  CASE tag = "Info" -> 0
    [] tag = "Warn" -> 1
    [] tag = "Error" -> 2
    [] tag = "Critical" -> 3

\* C7: Notify with an unknown tag is an Error-severity message naming the
\* tag (one ERROR line when threshold <= Error, nothing above); a known tag
\* is the emit of the same-named severity.
C7_UnknownTagNamed ==
  \A c \in Callers :
    (Done(c) /\ st[c].op = "Notify" /\ Tested(c)) =>
      IF KnownTag(st[c].tag)
      THEN /\ st[c].sev = SameNamedSeverity(st[c].tag)
           /\ LinesOf(c) = (IF st[c].sev >= Seen(c) THEN 1 ELSE 0)
           /\ \A i \in Lines(st[c].id) :
                sink[i].lab = SeverityLabel(st[c].sev)
      ELSE IF Seen(c) <= LevelError
           THEN /\ LinesOf(c) = 1
                /\ \A i \in Lines(st[c].id) :
                     sink[i].lab = "ERROR" /\ Names(sink[i].txt, st[c].tag)
           ELSE LinesOf(c) = 0

ClaimedEnvLevel(e) ==
  CASE e = "INFO" -> 0
    [] e = "WARN" -> 1
    [] e = "ERROR" -> 2
    [] e = "CRITICAL" -> 3
    [] OTHER -> 2

\* C8: InitFromEnv stores Info, Warn, Error, Critical for exactly "INFO",
\* "WARN", "ERROR", "CRITICAL", Error for any other value that is present,
\* and stores nothing when LOG_LEVEL is unset; an emit tested against the
\* store of LOG_LEVEL=WARN is suppressed at Info and written at Warn.
C8_InitFromEnvLevel ==
  \A c \in Callers :
    st[c].op = "InitFromEnv" =>
      /\ st[c].env = Unset => st[c].widx = 0
      /\ (st[c].env # Unset /\ Done(c)) => st[c].widx > 0
      /\ st[c].widx > 0 => hist[st[c].widx] = ClaimedEnvLevel(st[c].env)
      /\ (st[c].widx > 0 /\ mu = c) => CurLevel = ClaimedEnvLevel(st[c].env)
      /\ \A d \in Callers :
           (st[c].env = "WARN" /\ Done(d) /\ SeverityEmit(d)
              /\ st[d].sidx = st[c].widx) =>
             /\ st[d].sev = LevelInfo => LinesOf(d) = 0
             /\ st[d].sev = LevelWarn => LinesOf(d) = 1

C8_Witness ==
  \E c, d \in Callers :
    /\ Done(c) /\ st[c].op = "InitFromEnv" /\ st[c].env = "WARN"
    /\ Done(d) /\ SeverityEmit(d) /\ st[d].sidx = st[c].widx
    /\ st[d].sev = LevelInfo /\ LinesOf(d) = 0
    /\ hist[1] # LevelWarn

\* C9: unmarshalling what MarshalJSON produced stores the threshold that
\* was marshalled; the record is {"level": N} and nothing else; once
\* UnmarshalJSON has stored, the writers point to standard output.
C9_JSONRoundTrip ==
  /\ \A i \in 1..Len(wire) :
       /\ ValidJSON(wire[i].data)
       /\ SubSeq(wire[i].data, 1, 3) = <<"{", "level", ":">>
       /\ DecodeJSON(wire[i].data) = wire[i].level
  /\ \A c \in Callers :
       (st[c].op = "UnmarshalJSON" /\ st[c].widx > 0) =>
         /\ \A i \in 1..Len(wire) :
              st[c].data = wire[i].data => hist[st[c].widx] = wire[i].level
         /\ mu = c => (out = "stdout" /\ CurLevel = hist[st[c].widx])

C9_Witness ==
  \E c \in Callers :
    /\ Done(c) /\ st[c].op = "UnmarshalJSON" /\ st[c].widx > 0
    /\ wire # <<>> /\ st[c].data = wire[1].data
    /\ hist[st[c].widx] = wire[1].level /\ wire[1].level < 0
    /\ out = "stdout"

\* The threshold in force for a call that made no test of its own.
ThresholdFor(c) == IF Tested(c) THEN Seen(c) ELSE CurLevel

\* C10: a numeric level outside {0,1,2,3} is reported as an Error message
\* naming the value, filtered like any Error message; the caller's message
\* is not written and the threshold is not stored.
C10_UnknownLevelFiltered ==
  \A c \in Callers :
    (st[c].op \in {"Log", "LogWithLevel"} /\ st[c].n \notin Severities
       /\ st[c].pc = "ret") =>
      /\ LinesOf(c) = (IF ThresholdFor(c) <= LevelError THEN 1 ELSE 0)
      /\ \A i \in Lines(st[c].id) :
           /\ sink[i].lab = "ERROR"
           /\ sink[i].txt = <<"Unknown log level:">> \o IntDigits(st[c].n)
      /\ st[c].widx = 0

\* Caller c's call takes this step.
Acting(c) == st'[c] # st[c]

\* C11 (as stated): the threshold of a Logger changes only in a step of
\* SetLevel or InitFromEnv; emits, Notify, MarshalJSON and UnmarshalJSON
\* leave it as it was.
C11_ThresholdOnlyBySetLevel ==
  [][(gen' = gen /\ CurLevel' # CurLevel) =>
       \E c \in Callers : Acting(c) /\ st[c].op \in StoreOps]_vars

\* C11 (amended): the threshold of a Logger changes only in a step of
\* SetLevel, InitFromEnv or UnmarshalJSON; every step of an emit, of Notify
\* and of MarshalJSON leaves it as it was.
C11_ThresholdOnlyByStores ==
  [][(gen' = gen /\ CurLevel' # CurLevel) =>
       \E c \in Callers :
         Acting(c) /\ st[c].op \in StoreOps \cup {"UnmarshalJSON"}]_vars

\* An UnmarshalJSON call has changed the threshold of the Logger, and an emit
\* that wrote its line has returned.
C11_Witness ==
  /\ gen = 1
  /\ \E c \in Callers :
       /\ Done(c) /\ st[c].op = "UnmarshalJSON" /\ st[c].widx > 1
       /\ hist[st[c].widx] # hist[st[c].widx - 1]
  /\ \E d \in Callers : Done(d) /\ st[d].op \in EmitOps /\ LinesOf(d) = 1

\* C12: the global logger is created once: a step of an InitializeGlobalLogger
\* call made when the global logger exists leaves its identity, its threshold
\* and its sink unchanged.
C12_GlobalLoggerCreatedOnce ==
  [][(\E c \in Callers : Acting(c) /\ st'[c].op = "InitializeGlobalLogger") =>
       (gen' = gen /\ hist' = hist /\ out' = out)]_vars

\* C13: no call waits for the mutex it holds itself, a call in progress can
\* always take a step unless it waits for a mutex another call holds, and
\* under fair scheduling every call returns, after which its caller does not
\* hold the mutex.
C13_EveryCallReturns ==
  /\ [](\A c \in Callers : st[c].pc = "lock" => mu # c)
  /\ []((\E c \in Callers : st[c].pc # "idle") =>
          \E c \in Callers : ENABLED Step(c))
  /\ [](\A c \in Callers : st[c].pc = "idle" => mu # c)
  /\ \A c \in Callers : (st[c].pc # "idle") ~> (st[c].pc = "idle")

\* A LogWithLevel call holds the mutex and is about to run its severity
\* method while the other caller waits for the mutex.
C13_Witness ==
  /\ variant = "lwl"
  /\ \E c, d \in Callers :
       /\ st[c].op = "LogWithLevel" /\ st[c].pc = "check" /\ mu = c
       /\ st[d].pc = "lock"

====
